---- MODULE Spec2Model ----
(***************************************************************************)
(* A model of xbot's SSH command executor (lib/ssh.py): the _Result        *)
(* parser that locates a command's own output in the raw terminal text,    *)
(* and the SSH class that multiplexes named shells, sends commands and     *)
(* polls for their completion.                                             *)
(*                                                                         *)
(* Text is a sequence of one-character strings, so that line splitting,    *)
(* trimming, prefix/suffix tests and chunk boundaries are computed the way *)
(* the Python code computes them.                                          *)
(***************************************************************************)
EXTENDS Integers, Sequences, FiniteSets, TLC

VARIABLES
    res,     \* a stand-alone _Result (the parser on its own)
    feed,    \* the raw text not yet appended to res
    nfed,    \* appendrs calls made on res so far (2 stands for 2 or more)
    thr,     \* per thread: the position and locals of its exec() call, and
             \* (for the properties) the remote side's whole answer to it
    shells,  \* SSH._shells: an insertion-ordered dict, name -> channel
    chans,   \* the pseudo-terminal channels opened so far
    conn,    \* the SSHClient transport and SSH._profile
    log,     \* the closes made so far and what each closed, in order
    deep     \* a deepset() call and the deepget() after it (xbot/util.py)

parserVars == <<res, feed, nfed>>

sshVars == <<thr, shells, chans, conn, log>>

utilVars == <<deep>>

vars == <<res, feed, nfed, thr, shells, chans, conn, log, deep>>

(***************************************************************************)
(* Python values                                                           *)
(***************************************************************************)

\* Python's None where an int is expected (_start, _end): a value no line
\* index takes (_end is at least -1, _start at least 1).
None == -2

\* SSH.PS1 = '[sh@xbot]$ '
PS1 == <<"[", "s", "h", "@", "x", "b", "o", "t", "]", "$", " ">>

\* The characters str.splitlines() breaks a line at (those of the alphabet
\* used here; "\r\n" counts as one break).
LineBreaks == {"\n", "\r", "\f"}

\* The characters str.strip() removes.
Whitespace == {" ", "\t", "\n", "\r", "\f"}

Digits == {"0", "1", "2", "3", "4", "5", "6", "7", "8", "9"}

Min(a, b) == IF a < b THEN a ELSE b

Max(a, b) == IF a > b THEN a ELSE b

\* str.splitlines(): the text from position `from` on, read from position i;
\* no trailing empty line for a text that ends in a break.
\* The position of the first line break of s at or after position i, or
\* Len(s) + 1 when there is none.
NextBreak(s, i) ==
    IF \E j \in i..Len(s) : s[j] \in LineBreaks
    THEN CHOOSE j \in i..Len(s) :
            s[j] \in LineBreaks /\ \A k \in i..(j - 1) : s[k] \notin LineBreaks
    ELSE Len(s) + 1

RECURSIVE SplitFrom(_, _, _, _)
SplitFrom(s, from, i, acc) ==
    LET j == NextBreak(s, i) IN
    IF j > Len(s)
    THEN IF from > Len(s) THEN acc ELSE Append(acc, SubSeq(s, from, Len(s)))
    ELSE IF s[j] = "\r" /\ j < Len(s) /\ s[j + 1] = "\n"
         THEN SplitFrom(s, j + 2, j + 2, Append(acc, SubSeq(s, from, j - 1)))
         ELSE SplitFrom(s, j + 1, j + 1, Append(acc, SubSeq(s, from, j - 1)))

SplitLines(s) == SplitFrom(s, 1, 1, <<>>)

\* '\n'.join(lines)
RECURSIVE Join(_)
Join(lines) ==
    IF Len(lines) = 0 THEN <<>>
    ELSE IF Len(lines) = 1 THEN lines[1]
    ELSE lines[1] \o <<"\n">> \o Join(Tail(lines))

\* str.strip()
RECURSIVE LStrip(_)
LStrip(s) ==
    IF s # <<>> /\ s[1] \in Whitespace THEN LStrip(Tail(s)) ELSE s

RECURSIVE RStrip(_)
RStrip(s) ==
    IF s # <<>> /\ s[Len(s)] \in Whitespace
    THEN RStrip(SubSeq(s, 1, Len(s) - 1)) ELSE s

Strip(s) == RStrip(LStrip(s))

\* sub in s
Contains(sub, s) ==
    \/ sub = <<>>
    \/ \E i \in 0..(Len(s) - Len(sub)) :
          s[i + 1] = sub[1] /\ SubSeq(s, i + 1, i + Len(sub)) = sub

\* s.endswith(suf)
EndsWith(s, suf) ==
    /\ Len(suf) <= Len(s)
    /\ SubSeq(s, Len(s) - Len(suf) + 1, Len(s)) = suf

\* A slice bound as Python clamps it: None takes the default, a negative
\* bound counts from the end.
SliceBound(b, n, dflt) ==
    IF b = None THEN dflt
    ELSE IF b < 0 THEN Max(0, n + b)
    ELSE Min(b, n)

\* lines[start:end]
PySlice(lines, start, end) ==
    LET lo == SliceBound(start, Len(lines), 0)
        hi == SliceBound(end, Len(lines), Len(lines))
    IN  SubSeq(lines, lo + 1, hi)

\* bool(x) for x an int or None
Truthy(x) == x # None /\ x # 0

(***************************************************************************)
(* _Result: the parse state of one exec() call                             *)
(***************************************************************************)

\* expect='0' and expect=''
ExpectZero == <<"0">>

ExpectNothing == <<>>

\* _Result.__init__
NewResult(ps1, cmd, expect) ==
    [ps1 |-> ps1, cmd |-> cmd, expect |-> expect, rs |-> <<>>, rc |-> <<>>,
     purers |-> <<>>, start |-> None, end |-> None]

\* ps1line.match(line) with ps1line = re.compile(f'.*?{re.escape(ps1)}.*'):
\* a line (which holds no "\n") matches when the marker occurs in it.
Ps1Line(ps1, line) == Contains(ps1, line)

\* A scan in which a start, once set, is never moved.
RECURSIVE LocateFromFirst(_, _, _, _, _)
LocateFromFirst(lines, i, start, ps1, cmd) ==
    IF i >= Len(lines) THEN <<start, None>>
    ELSE LET line == lines[i + 1] IN
         IF start = None /\ line = cmd
         THEN LocateFromFirst(lines, i + 1, i + 1, ps1, cmd)
         ELSE IF Ps1Line(ps1, line) /\ EndsWith(line, cmd) /\ Strip(cmd) # <<>>
         THEN LocateFromFirst(lines, i + 1,
                              IF start = None THEN i + 1 ELSE start, ps1, cmd)
         ELSE IF Ps1Line(ps1, line)
         THEN IF Contains(<<" ">>, Strip(cmd)) /\ start = None
              THEN LocateFromFirst(lines, i + 1, start, ps1, cmd)
              ELSE <<start, i - 1>>
         ELSE LocateFromFirst(lines, i + 1, start, ps1, cmd)

\* The loop of _locate_purers from line index i (0-based) on; <<start, end>>.
RECURSIVE LocateFrom(_, _, _, _, _)
LocateFrom(lines, i, start, ps1, cmd) ==
    IF i >= Len(lines) THEN <<start, None>>
    ELSE LET line == lines[i + 1] IN
         IF start = None /\ line = cmd
         THEN LocateFrom(lines, i + 1, i + 1, ps1, cmd)
         ELSE IF Ps1Line(ps1, line) /\ EndsWith(line, cmd) /\ Strip(cmd) # <<>>
         THEN LocateFrom(lines, i + 1, i + 1, ps1, cmd)
         ELSE IF Ps1Line(ps1, line)
         THEN IF Contains(<<" ">>, Strip(cmd)) /\ start = None
              THEN LocateFrom(lines, i + 1, start, ps1, cmd)
              ELSE <<start, i - 1>>
         ELSE LocateFrom(lines, i + 1, start, ps1, cmd)

\* _Result._locate_purers, on lines = self._rs.splitlines()
LocatePurers(lines, ps1, cmd) == LocateFrom(lines, 0, None, ps1, cmd)

\* A _getrc that does not look at the last line.
GetRcAnyLast(all, end, ps1) ==
    IF end = None THEN <<>>
    ELSE LET lines == PySlice(all, end + 1, None)
         IN  IF Len(lines) < 3 THEN <<>>
             ELSE LET rc == lines[Len(lines) - 1] IN
                  IF rc = <<>> \/ rc[1] \notin Digits THEN <<>> ELSE rc

\* _Result._getrc, on all = self._rs.splitlines()
GetRc(all, end, ps1) ==
    IF end = None THEN <<>>
    ELSE LET lines == PySlice(all, end + 1, None)
         IN  IF Len(lines) < 3 THEN <<>>
             ELSE IF ~Ps1Line(ps1, lines[Len(lines)]) THEN <<>>
             ELSE LET rc == lines[Len(lines) - 1] IN
                  IF rc = <<>> \/ rc[1] \notin Digits THEN <<>> ELSE rc

\* A purified text that, while no end is located, forgets the start.
PureRsWhole(lines, start, end) ==
    LET e == IF Truthy(end) THEN end + 1 ELSE end
    IN  Strip(Join(PySlice(lines, IF end = None THEN None ELSE start, e)))

\* The purified text appendrs computes from the located bounds, on
\* lines = self._rs.splitlines()
PureRs(lines, start, end) ==
    LET e == IF Truthy(end) THEN end + 1 ELSE end
    IN  Strip(Join(PySlice(lines, start, e)))

\* appendrs as it would be if a start line, once located, were kept from
\* one append to the next instead of being located again.
AppendRsKeepStart(r, s) ==
    LET rs2   == r.rs \o s
        lines == SplitLines(rs2)
        se    == LocatePurers(lines, r.ps1, r.cmd)
        start == IF r.start # None THEN r.start ELSE se[1]
    IN  [r EXCEPT !.rs = rs2,
                  !.start = start,
                  !.end = se[2],
                  !.purers = PureRs(lines, start, se[2]),
                  !.rc = IF r.expect = ExpectZero
                         THEN GetRc(lines, se[2], r.ps1) ELSE @]

\* _Result.appendrs
AppendRs(r, s) ==
    LET rs2   == r.rs \o s
        lines == SplitLines(rs2)
        se    == LocatePurers(lines, r.ps1, r.cmd)
    IN  [r EXCEPT !.rs = rs2,
                  !.start = se[1],
                  !.end = se[2],
                  !.purers = PureRs(lines, se[1], se[2]),
                  !.rc = IF r.expect = ExpectZero
                         THEN GetRc(lines, se[2], r.ps1) ELSE @]

\* finished as it would be if a Contains() expectation also waited for the
\* prompt to come back.
FinishedAtPrompt(r) ==
    IF r.expect = ExpectZero THEN r.rc # <<>>
    ELSE IF r.expect = ExpectNothing THEN r.end # None
    ELSE r.end # None /\ Contains(r.expect, r.purers)

\* _Result.finished
Finished(r) ==
    IF r.expect = ExpectZero THEN r.rc # <<>>
    ELSE IF r.expect = ExpectNothing THEN r.end # None
    ELSE Contains(r.expect, r.purers)

(***************************************************************************)
(* Bounds and input alphabets                                              *)
(***************************************************************************)

\* Lines of a raw text fed to a stand-alone _Result.
MaxLines == 3

\* Characters of one chunk (fed to a stand-alone _Result, or returned by
\* recv), unless the chunk is all that is left of the text.
MaxChunk == 2

\* '\r\n', the line end a pseudo-terminal produces.
EOL == <<"\r", "\n">>

\* Commands: one word, and several words.
CmdLs == <<"l", "s">>

CmdLsRoot == <<"l", "s", " ", "/">>

\* 'ls<TAB>/': two words with no space between them
CmdLsTab == <<"l", "s", "\t", "/">>

\* A line of command output.
OutLine == <<"o", "k">>

\* A Contains() expectation that occurs in OutLine, and one that occurs in
\* the command texts only.
PatOk == <<"k">>

PatCmd == <<"l", "s">>

\* All sequences of at most n elements of S.
RECURSIVE SeqsUpTo(_, _)
SeqsUpTo(S, n) ==
    IF n = 0 THEN {<<>>}
    ELSE LET shorter == SeqsUpTo(S, n - 1)
         IN  shorter \cup {Append(q, x) : q \in shorter, x \in S}

\* The lines joined by EOL, the last one left unterminated.
RECURSIVE JoinEol(_)
JoinEol(lines) ==
    IF Len(lines) = 0 THEN <<>>
    ELSE IF Len(lines) = 1 THEN lines[1]
    ELSE lines[1] \o EOL \o JoinEol(Tail(lines))

ParserCmds == {CmdLs, CmdLsRoot, CmdLsTab}

ParserExpects == {ExpectZero, ExpectNothing, PatCmd}

\* A line that begins with a digit and is no number
DigitLine == <<"2", "x">>

\* The kinds of line a terminal shows around a command: its echo with and
\* without the prompt, a bare prompt, a line that begins with a digit (as
\* an exit code does), another line of output.
ParserLines(cmd) == {PS1 \o cmd, cmd, PS1, DigitLine, OutLine}

ParserTexts(cmd) == {JoinEol(q) : q \in SeqsUpTo(ParserLines(cmd), MaxLines)}

(***************************************************************************)
(* SSH: the shells, the channels and the transport                         *)
(***************************************************************************)

\* 'source ' and 'echo $?'
SourceWord == <<"s", "o", "u", "r", "c", "e", " ">>

EchoRc == <<"e", "c", "h", "o", " ", "$", "?">>

\* str(None), what an f-string makes of SSH._profile before connect().
ProfileNone == <<"N", "o", "n", "e">>

\* data = f'{cmd}\necho $?' if expect == '0' else cmd
ExecData(cmd, expect) ==
    IF expect = ExpectZero THEN cmd \o <<"\n">> \o EchoRc ELSE cmd

\* shname = f'{callermod}-{threadname}'
ShName(mod, name) == mod \o <<"-">> \o name

\* data = f'source {self._profile}\n{data}'
SourceData(profile, data) == SourceWord \o profile \o <<"\n">> \o data

\* shname in self._shells
HasShell(sh, name) == \E i \in 1..Len(sh) : sh[i].name = name

\* self._shells[shname]
ShellOf(sh, name) == (CHOOSE i \in 1..Len(sh) : sh[i].name = name)

\* self._shells[shname] = shell: a new key goes last, a known key keeps its
\* place and takes the new value.
PutShell(sh, name, c) ==
    IF HasShell(sh, name)
    THEN [sh EXCEPT ![ShellOf(sh, name)] = [name |-> name, shell |-> c]]
    ELSE Append(sh, [name |-> name, shell |-> c])

\* A pop that takes the entry stored last, whatever the name.
PopLast(sh, name) == SubSeq(sh, 1, Len(sh) - 1)

\* The dict left by self._shells.pop(name)
PopShell(sh, name) ==
    LET i == ShellOf(sh, name)
    IN  SubSeq(sh, 1, i - 1) \o SubSeq(sh, i + 1, Len(sh))

\* shell_names()
ShellNames(sh) == [i \in 1..Len(sh) |-> sh[i].name]

\* A channel just returned by invoke_shell, after set_name(shname).
NewChannel(name) ==
    [name |-> name, closed |-> FALSE, sent |-> <<>>, inq |-> <<>>]

\* Channel.close()
CloseChannel(ch) == [ch EXCEPT !.closed = TRUE, !.inq = <<>>]

\* shell.recv_ready()
RecvReady(ch) == ch.inq # <<>>

\* The bytes of a UTF-8 encoded 'e with acute accent' (U+00E9), and the
\* character they decode to.
ByteC3 == "xC3"

ByteA9 == "xA9"

CharE9 == "u00E9"

\* bytes.decode(errors='ignore'): a complete sequence gives its character,
\* a lead byte without its continuation and a stray continuation byte are
\* dropped.
RECURSIVE Decode(_)
Decode(b) ==
    IF \A i \in 1..Len(b) : b[i] \notin {ByteC3, ByteA9} THEN b
    ELSE LET j == CHOOSE i \in 1..Len(b) :
                     /\ b[i] \in {ByteC3, ByteA9}
                     /\ \A k \in 1..(i - 1) : b[k] \notin {ByteC3, ByteA9}
         IN  SubSeq(b, 1, j - 1) \o
             (IF b[j] = ByteC3 /\ j < Len(b) /\ b[j + 1] = ByteA9
              THEN <<CharE9>> \o Decode(SubSeq(b, j + 2, Len(b)))
              ELSE Decode(SubSeq(b, j + 1, Len(b))))

\* The size exec() passes to shell.recv().
RecvSize == 1024

\* timedelta.seconds: the seconds within the day of a non-negative span.
SecondsPerDay == 86400

ElapsedSeconds(e) == e % SecondsPerDay

\* What an exec() call gives its caller.
NoReturn == [kind |-> "none", cmd |-> <<>>, expect |-> <<>>, text |-> <<>>]

Returned(r) ==
    [kind |-> "return", cmd |-> <<>>, expect |-> <<>>, text |-> r.purers]

\* raise ShellError(f"{d}\n{result.purers}")
CommandError(cmd, expect, r) ==
    [kind |-> "ShellError", cmd |-> cmd, expect |-> expect, text |-> r.purers]

\* The timeout error as it would be if it carried the raw text.
TimeoutErrorRaw(cmd, expect, r) ==
    [kind |-> "Timeout", cmd |-> cmd, expect |-> expect, text |-> r.rs]

\* raise ShellError(f"Timeout: {d}\n{result.purers}")
TimeoutError(cmd, expect, r) ==
    [kind |-> "Timeout", cmd |-> cmd, expect |-> expect, text |-> r.purers]

\* An exception of a collaborator or of the dict, passed on to the caller.
OtherError(kind) ==
    [kind |-> kind, cmd |-> <<>>, expect |-> <<>>, text |-> <<>>]

\* The body of the polling loop after an append: NoReturn to go on polling.
AfterAppend(cmd, expect, r) ==
    IF Finished(r)
    THEN IF expect = ExpectZero /\ r.rc # <<"0">>
         THEN CommandError(cmd, expect, r)
         ELSE Returned(r)
    ELSE NoReturn

\* A thread that is not inside exec().
IdleThread(name) ==
    [pc |-> "idle", name |-> name, mod |-> <<>>, cmd |-> <<>>,
     expect |-> <<>>, timeout |-> 0, data |-> <<>>, shname |-> <<>>,
     shell |-> 0, result |-> NewResult(PS1, <<>>, <<>>), elapsed |-> 0,
     nrecv |-> 0, ret |-> NoReturn, ncalls |-> 0, reply |-> <<>>]

\* An entry of the log.
Event(op, key, chan) == [op |-> op, key |-> key, chan |-> chan]

\* A payload written to a channel, with (for the properties) the call
\* that wrote it and the number of closes made before.
Payload(data, t, c, era) ==
    [data |-> data, t |-> t, mod |-> c.mod, name |-> c.name, cmd |-> c.cmd,
     expect |-> c.expect, era |-> era]

Threads == DOMAIN thr

\* 'en_US.UTF-8'
EnUs == <<"e", "n", "_", "U", "S", ".", "U", "T", "F", "-", "8">>

KeyPS1 == <<"P", "S", "1">>

KeyLANG == <<"L", "A", "N", "G">>

KeyLANGUAGE == <<"L", "A", "N", "G", "U", "A", "G", "E">>

\* The keyword arguments of self._shenvs.update(...), in their order.
ForcedEnv ==
    <<[k |-> KeyPS1, v |-> PS1], [k |-> KeyLANG, v |-> EnUs],
      [k |-> KeyLANGUAGE, v |-> EnUs]>>

\* A d[k] = v that leaves the value of a key the dict already has.
DictSetDefault(d, k, v) ==
    IF \E i \in 1..Len(d) : d[i].k = k THEN d ELSE Append(d, [k |-> k, v |-> v])

\* d[k] = v on an insertion-ordered dict: a known key keeps its place and
\* takes the value, a new key goes last.
DictSet(d, k, v) ==
    IF \E i \in 1..Len(d) : d[i].k = k
    THEN [i \in 1..Len(d) |-> IF d[i].k = k THEN [k |-> k, v |-> v] ELSE d[i]]
    ELSE Append(d, [k |-> k, v |-> v])

\* d.update(items)
RECURSIVE DictUpdate(_, _)
DictUpdate(d, items) ==
    IF items = <<>> THEN d
    ELSE DictUpdate(DictSet(d, items[1].k, items[1].v), Tail(items))

\* fp.write(f'export {k}="{v}"\n')
ExportLine(k, v) ==
    <<"e", "x", "p", "o", "r", "t", " ">> \o k \o <<"=", "\"">> \o v \o <<"\"", "\n">>

\* _mkprofile(), lines 158-161: the text written to the profile.
RECURSIVE MkProfile(_)
MkProfile(shenvs) ==
    IF shenvs = <<>> THEN <<>>
    ELSE ExportLine(shenvs[1].k, shenvs[1].v) \o MkProfile(Tail(shenvs))

\* SSH(shenvs): no profile, a transport not yet opened, the environment
\* with the three fixed variables set; `given` is (for the properties) the
\* mapping as the caller passed it.
NewSSH(shenvs) ==
    [state |-> "new", profile |-> ProfileNone,
     shenvs |-> DictUpdate(shenvs, ForcedEnv), file |-> <<>>, given |-> shenvs]

\* connect(): the transport is opened and the profile written to a path
\* of random letters.
Connect(profile) ==
    /\ conn.state = "new"
    /\ conn' = [conn EXCEPT !.state = "open", !.profile = profile,
                            !.file = MkProfile(conn.shenvs)]
    /\ UNCHANGED <<thr, shells, chans, log, parserVars, utilVars>>

\* exec(), lines 122-128: the payload, the shell name, and the test
\* whether the name is cached.
ExecStart(t, mod, cmd, expect, timeout) ==
    /\ thr[t].pc \in {"idle", "done"}
    /\ LET key == ShName(mod, thr[t].name) IN
       thr' = [thr EXCEPT ![t] =
                 [IdleThread(thr[t].name) EXCEPT
                    !.pc = IF HasShell(shells, key) THEN "fetch" ELSE "invoke",
                    !.mod = mod, !.cmd = cmd, !.expect = expect,
                    !.timeout = timeout, !.data = ExecData(cmd, expect),
                    !.shname = key, !.ncalls = thr[t].ncalls + 1]]
    /\ UNCHANGED <<shells, chans, conn, log, parserVars, utilVars>>

\* exec(), lines 129-130: invoke_shell() and set_name(); it raises on a
\* transport that is not open.
InvokeShell(t) ==
    /\ thr[t].pc = "invoke"
    /\ IF conn.state = "open"
       THEN /\ chans' = Append(chans, NewChannel(thr[t].shname))
            /\ thr' = [thr EXCEPT ![t].pc = "store",
                                  ![t].shell = Len(chans) + 1]
       ELSE /\ thr' = [thr EXCEPT ![t].pc = "done",
                                  ![t].ret = OtherError("SSHException")]
            /\ UNCHANGED chans
    /\ UNCHANGED <<shells, conn, log, parserVars, utilVars>>

\* exec(), lines 131-132: the new shell is cached and the payload gets the
\* source directive.
StoreShell(t) ==
    /\ thr[t].pc = "store"
    /\ shells' = PutShell(shells, thr[t].shname, thr[t].shell)
    /\ thr' = [thr EXCEPT ![t].pc = "fetch",
                          ![t].data = SourceData(conn.profile, thr[t].data)]
    /\ UNCHANGED <<chans, conn, log, parserVars, utilVars>>

\* exec(), line 133: shell = self._shells[shname]
FetchShell(t) ==
    /\ thr[t].pc = "fetch"
    /\ IF HasShell(shells, thr[t].shname)
       THEN thr' = [thr EXCEPT
                      ![t].pc = "send",
                      ![t].shell = shells[ShellOf(shells, thr[t].shname)].shell]
       ELSE thr' = [thr EXCEPT ![t].pc = "done",
                               ![t].ret = OtherError("KeyError")]
    /\ UNCHANGED <<shells, chans, conn, log, parserVars, utilVars>>

\* exec(), lines 134-136: the payload is written, a fresh _Result is made
\* and the clock is read.  The remote side's answer to the payload is
\* `reply`, which reaches the channel from now on.
Send(t, reply) ==
    /\ thr[t].pc = "send"
    /\ LET c == thr[t].shell IN
       IF chans[c].closed
       THEN /\ thr' = [thr EXCEPT ![t].pc = "done",
                                  ![t].ret = OtherError("OSError")]
            /\ UNCHANGED chans
       ELSE /\ chans' = [chans EXCEPT
                           ![c].sent = Append(@, Payload(thr[t].data \o <<"\r">>,
                                                         t, thr[t], Len(log))),
                           ![c].inq = @ \o reply]
            /\ thr' = [thr EXCEPT
                         ![t].pc = "poll",
                         ![t].result = NewResult(PS1, thr[t].cmd, thr[t].expect),
                         ![t].elapsed = 0,
                         ![t].reply = reply]
    /\ UNCHANGED <<shells, conn, log, parserVars, utilVars>>

\* exec(), lines 137-146: one turn of the loop with bytes ready.  recv()
\* returns the first n bytes that have arrived.
Recv(t, n) ==
    /\ thr[t].pc = "poll"
    /\ ElapsedSeconds(thr[t].elapsed) < thr[t].timeout
    /\ LET c == thr[t].shell IN
       /\ RecvReady(chans[c])
       /\ n \in 1..Min(Len(chans[c].inq), RecvSize)
       /\ LET r   == AppendRs(thr[t].result, Decode(SubSeq(chans[c].inq, 1, n)))
              ret == AfterAppend(thr[t].cmd, thr[t].expect, r)
          IN  /\ thr' = [thr EXCEPT
                           ![t].result = r,
                           ![t].nrecv = Min(thr[t].nrecv + 1, 2),
                           ![t].ret = ret,
                           ![t].pc = IF ret = NoReturn THEN "poll" ELSE "done"]
              /\ chans' = [chans EXCEPT
                             ![c].inq = SubSeq(@, n + 1, Len(@))]
    /\ UNCHANGED <<shells, conn, log, parserVars, utilVars>>

\* The sizes recv(1024) may return to thread t: a short piece of what the
\* remote side has written (so that a chunk can end at any byte), or all
\* of it up to 1024 bytes.
RecvSizes(t) ==
    IF thr[t].pc = "poll"
    THEN LET n == Min(Len(chans[thr[t].shell].inq), RecvSize)
         IN  (1..Min(n, MaxChunk)) \cup {n}
    ELSE {}

\* A second passes while the call is in its loop (time.sleep(0.01) turns
\* with nothing read).
Tick(t) ==
    /\ thr[t].pc = "poll"
    /\ ElapsedSeconds(thr[t].elapsed) < thr[t].timeout
    /\ thr' = [thr EXCEPT ![t].elapsed = @ + 1]
    /\ UNCHANGED <<shells, chans, conn, log, parserVars, utilVars>>

\* exec(), lines 147-150: the else branch of the loop.
Timeout(t) ==
    /\ thr[t].pc = "poll"
    /\ ~(ElapsedSeconds(thr[t].elapsed) < thr[t].timeout)
    /\ thr' = [thr EXCEPT
                 ![t].pc = "done",
                 ![t].ret = TimeoutError(thr[t].cmd, thr[t].expect, thr[t].result)]
    /\ UNCHANGED <<shells, chans, conn, log, parserVars, utilVars>>

\* The loop of close() over shell_names(): each name is popped and its
\* channel closed.  <<shells, chans, events>> when the loop is over.
RECURSIVE CloseShells(_, _, _, _)
CloseShells(names, sh, ch, ev) ==
    IF names = <<>> THEN <<sh, ch, ev>>
    ELSE LET c == sh[ShellOf(sh, names[1])].shell IN
         CloseShells(Tail(names), PopShell(sh, names[1]),
                     [ch EXCEPT ![c] = CloseChannel(ch[c])],
                     Append(ev, Event("close_shell", names[1], c)))

\* close(), lines 67-70, after the removal of the profile was tried: the
\* shells are closed, then the transport, which closes every channel it
\* still has.
CloseRest(sh, ch, cn, rm) ==
    LET done == CloseShells(ShellNames(sh), sh, ch, <<rm>>)
    IN  [shells |-> done[1],
         chans  |-> [c \in DOMAIN done[2] |-> CloseChannel(done[2][c])],
         conn   |-> [cn EXCEPT !.state = "closed"],
         events |-> done[3] \o <<Event("close_transport", <<>>, 0),
                                 Event("close_return", <<>>, 0)>>]

\* A close() without its try/except: a failed removal ends the call.
CloseEffectsNoTry(sh, ch, cn, rmfails) ==
    IF rmfails
    THEN [shells |-> sh, chans |-> ch, conn |-> cn,
          events |-> <<Event("rm_failed", <<>>, 0), Event("raise", <<>>, 0)>>]
    ELSE CloseRest(sh, ch, cn, Event("rm", <<>>, 0))

\* close(): the profile is removed (a failure is passed over), then the
\* rest is done.
CloseEffects(sh, ch, cn, rmfails) ==
    CloseRest(sh, ch, cn, Event(IF rmfails THEN "rm_failed" ELSE "rm", <<>>, 0))

\* close(), taken as one step.  exec_command() raises on a transport that
\* is not open, and may fail on one that is.
Close(rmfails) ==
    /\ conn.state # "closed"
    /\ conn.state # "open" => rmfails
    /\ LET e == CloseEffects(shells, chans, conn, rmfails) IN
       /\ shells' = e.shells
       /\ chans' = e.chans
       /\ conn' = e.conn
       /\ log' = log \o e.events
    /\ UNCHANGED <<thr, parserVars, utilVars>>

\* close_shell(name): self._shells.pop(name).close()
CloseShell(name) ==
    /\ IF HasShell(shells, name)
       THEN LET c == shells[ShellOf(shells, name)].shell IN
            /\ shells' = PopShell(shells, name)
            /\ chans' = [chans EXCEPT ![c] = CloseChannel(chans[c])]
            /\ log' = Append(log, Event("close_shell1", name, c))
       ELSE /\ log' = Append(log, Event("KeyError", name, 0))
            /\ UNCHANGED <<shells, chans>>
    /\ UNCHANGED <<thr, conn, parserVars, utilVars>>

\* The state after SSH(): no shell, no profile, a transport not yet opened.
NewConn == NewSSH(<<>>)

(***************************************************************************)
(* xbot/util.py: parse_deepkey, deepget, deepset                           *)
(***************************************************************************)

\* A value of a nested dictionary: a str, or a dict from keys to values.
Leaf(v) == [kind |-> "leaf", v |-> v, items |-> <<>>]

Dict(items) == [kind |-> "dict", v |-> <<>>, items |-> items]

\* An element of the list parse_deepkey() returns: a str, or an int.
StrKey(s) == [int |-> FALSE, s |-> s, n |-> 0]

IntKey(n) == [int |-> TRUE, s |-> <<>>, n |-> n]

\* int(k) for a str of digits
RECURSIVE IntOf(_)
IntOf(k) ==
    IF k = <<>> THEN 0
    ELSE 10 * IntOf(SubSeq(k, 1, Len(k) - 1)) +
         (CHOOSE d \in 0..9 :
             k[Len(k)] = <<"0", "1", "2", "3", "4", "5", "6", "7", "8", "9">>[d + 1])

\* str.isdigit()
IsDigit(k) == k # <<>> /\ \A i \in 1..Len(k) : k[i] \in Digits

\* parse_deepkey(), lines 115-119: one piece of the split.
ParseKey(k) ==
    IF k # <<>> /\ k[Len(k)] = "]" /\ IsDigit(SubSeq(k, 1, Len(k) - 1))
    THEN IntKey(IntOf(SubSeq(k, 1, Len(k) - 1)))
    ELSE StrKey(k)

\* re.split(r'<sep>|\[', deepkey): the pieces between the separators, the
\* piece begun at position from being read at position i.
RECURSIVE SplitKey(_, _, _, _, _)
SplitKey(s, sep, from, i, acc) ==
    IF i > Len(s) THEN Append(acc, SubSeq(s, from, Len(s)))
    ELSE IF s[i] = sep \/ s[i] = "["
         THEN SplitKey(s, sep, i + 1, i + 1, Append(acc, SubSeq(s, from, i - 1)))
         ELSE SplitKey(s, sep, from, i + 1, acc)

\* parse_deepkey(deepkey, sep)
ParseDeepkey(deepkey, sep) ==
    LET pieces == SplitKey(deepkey, sep, 1, 1, <<>>)
    IN  [i \in 1..Len(pieces) |-> ParseKey(pieces[i])]

\* The outcome of an operation: a value, or the exception raised.
Value(x) == [err |-> "", val |-> x]

Raised(e) == [err |-> e, val |-> Leaf(<<>>)]

\* operator.getitem(obj, k)
GetItem(obj, k) ==
    IF obj.kind = "dict"
    THEN IF k \in DOMAIN obj.items THEN Value(obj.items[k]) ELSE Raised("KeyError")
    ELSE IF ~k.int THEN Raised("TypeError")
    ELSE IF k.n < Len(obj.v) THEN Value(Leaf(<<obj.v[k.n + 1]>>))
    ELSE Raised("IndexError")

\* reduce(operator.getitem, keys, obj)
RECURSIVE Reduce(_, _)
Reduce(keys, obj) ==
    IF keys = <<>> THEN Value(obj)
    ELSE LET r == GetItem(obj, keys[1]) IN
         IF r.err # "" THEN r ELSE Reduce(Tail(keys), r.val)

\* deepget(obj, deepkey)
DeepGet(obj, deepkey) == Reduce(ParseDeepkey(deepkey, "."), obj)

\* An operation that changes obj in place: the exception it raised, if
\* any, and obj as it is when the operation ends.
Left(e, obj) == [err |-> e, val |-> obj]

\* A setitem that forgets the other keys of the dict.
SetItemOnly(obj, k, x) ==
    IF obj.kind = "dict" THEN Left("", Dict([y \in {k} |-> x]))
    ELSE Left("TypeError", obj)

\* operator.setitem(obj, k, x)
SetItem(obj, k, x) ==
    IF obj.kind = "dict"
    THEN Left("", Dict([y \in DOMAIN obj.items \cup {k} |->
                          IF y = k THEN x ELSE obj.items[y]]))
    ELSE Left("TypeError", obj)

\* deepset(), lines 174-180, from the object the walk has reached.  What
\* the walk does to the object bound to keys[1] is seen through obj.
RECURSIVE SetAt(_, _, _)
SetAt(obj, keys, x) ==
    IF Len(keys) = 1 THEN SetItem(obj, keys[1], x)
    ELSE LET r == GetItem(obj, keys[1]) IN
         IF r.err = "KeyError"
         THEN LET below == SetAt(Dict(<<>>), Tail(keys), x)
              IN  Left(below.err, SetItem(obj, keys[1], below.val).val)
         ELSE IF r.err # "" THEN Left(r.err, obj)
         ELSE LET below == SetAt(r.val, Tail(keys), x)
              IN  Left(below.err,
                       IF obj.kind = "dict"
                       THEN SetItem(obj, keys[1], below.val).val ELSE obj)

\* deepset(obj, deepkey, value)
DeepSet(obj, deepkey, x) == SetAt(obj, ParseDeepkey(deepkey, "."), x)

\* No call made.
NoDeep ==
    [pc |-> "none", before |-> Dict(<<>>), obj |-> Dict(<<>>), key |-> <<>>,
     value |-> Leaf(<<>>), set |-> "", got |-> Value(Leaf(<<>>))]

\* deepset(obj, key, value): obj is changed in place, or the call raises.
DeepSetCall ==
    /\ deep.pc = "set"
    /\ LET r == DeepSet(deep.obj, deep.key, deep.value) IN
       deep' = [deep EXCEPT !.pc = "get", !.set = r.err, !.obj = r.val]
    /\ UNCHANGED <<parserVars, sshVars>>

\* deepget(obj, key) on the object as deepset() left it.
DeepGetCall ==
    /\ deep.pc = "get"
    /\ deep' = [deep EXCEPT !.pc = "done", !.got = DeepGet(deep.obj, deep.key)]
    /\ UNCHANGED <<parserVars, sshVars>>

\* The longest deepkey given to deepset()
MaxPath == 3

KeyA == StrKey(<<"a">>)

KeyB == StrKey(<<"b">>)

\* The characters of a deepkey
PathChars == {"a", ".", "[", "0", "]"}

\* The deepkeys of at most n characters
RECURSIVE DeepKeys(_)
DeepKeys(n) ==
    IF n = 0 THEN {<<>>}
    ELSE LET less == DeepKeys(n - 1) IN
         less \cup {Append(p, c) : p \in {q \in less : Len(q) = n - 1},
                                   c \in PathChars}

\* The dicts with keys among 'a' and 'b' bound to the values vals
DictsOf(vals) ==
    UNION {{Dict(f) : f \in [ks -> vals]} : ks \in SUBSET {KeyA, KeyB}}

\* {'a': 'c'} and the like
FlatDicts == DictsOf({Leaf(<<"c">>)})

\* {'a': {'b': 'c'}, 'b': 'c'} and the like
NestedDicts == DictsOf({Leaf(<<"c">>)} \cup FlatDicts)

\* The values given to deepset()
SetValues == {Leaf(<<"d">>), Dict(<<>>)}

InitUtil ==
    /\ \E o \in NestedDicts, p \in DeepKeys(MaxPath), x \in SetValues :
          deep = [NoDeep EXCEPT !.pc = "set", !.before = o, !.obj = o,
                                !.key = p, !.value = x]
    /\ conn = NewConn
    /\ thr = <<>>
    /\ shells = <<>>
    /\ chans = <<>>
    /\ log = <<>>
    /\ res = NewResult(PS1, <<>>, <<>>)
    /\ feed = <<>>
    /\ nfed = 0

NextUtil == DeepSetCall \/ DeepGetCall

SpecUtil == InitUtil /\ [][NextUtil]_vars

(***************************************************************************)
(* A stand-alone _Result fed a raw text in arbitrary chunks                *)
(***************************************************************************)

InitParser ==
    /\ \E cmd \in ParserCmds, expect \in ParserExpects :
          /\ res = NewResult(PS1, cmd, expect)
          /\ feed \in ParserTexts(cmd)
    /\ nfed = 0
    /\ deep = NoDeep
    /\ thr = <<>>
    /\ shells = <<>>
    /\ chans = <<>>
    /\ conn = NewConn
    /\ log = <<>>

\* result.appendrs(chunk): the chunk is a short prefix of what is left, or
\* all of it, so that every prefix of the text is a state the parser is in.
ParserAppend ==
    \E n \in (1..Min(Len(feed), MaxChunk)) \cup (IF feed = <<>> THEN {} ELSE {Len(feed)}) :
       /\ res' = AppendRs(res, SubSeq(feed, 1, n))
       /\ feed' = SubSeq(feed, n + 1, Len(feed))
       /\ nfed' = Min(nfed + 1, 2)
       /\ UNCHANGED <<sshVars, utilVars>>

NextParser == ParserAppend

SpecParser == InitParser /\ [][NextParser]_vars

(***************************************************************************)
(* One caller running exec() against a remote shell                        *)
(***************************************************************************)

\* Lines of output in the remote side's answer to a command.
MaxOut == 1

\* The longest timeout (seconds) passed to exec().
MaxTimeout == 1

\* '/tmp/' + 10 random letters
ProfileA == <<"/", "t", "m", "p", "/", "D", "S", "X", "y", "q", "S", "k", "K", "e", "L">>

ModM == <<"m">>

NameW == <<"w">>

\* A line of output with a character outside ASCII, as the bytes sent.
OutLineE9 == <<ByteC3, ByteA9>>

\* The calls made: a one-word and a several-word command under each kind
\* of expectation, and 'echo $?' itself as the command.
ExecInputs ==
    ({CmdLs, CmdLsRoot} \X {ExpectZero, ExpectNothing, PatOk})
        \cup {<<EchoRc, ExpectZero>>}

ExecOutLines == {OutLine, OutLineE9}

ExitCodes == {<<"0">>, <<"2">>}

\* What the terminal shows for a command: its echo (behind the prompt, or
\* bare when the prompt was read by an earlier call), the output, and, when
\* the command is over, the prompt; with 'echo $?' sent along, the echo of
\* that, the exit code and the prompt again.  A command that stops to ask
\* for input shows no prompt after its output.
ExecReplies(cmd, expect) ==
    LET echoes == {PS1 \o cmd, cmd}
        outs   == SeqsUpTo(ExecOutLines, MaxOut)
    IN  IF expect = ExpectZero
        THEN {JoinEol(<<e>> \o o \o <<PS1 \o EchoRc, rc, PS1>>) :
                 e \in echoes, o \in outs, rc \in ExitCodes}
        ELSE {JoinEol(<<e>> \o o \o <<PS1>>) : e \in echoes, o \in outs}
             \cup {JoinEol(<<e>> \o o) : e \in echoes, o \in outs \ {<<>>}}

InitExec ==
    /\ thr = <<IdleThread(NameW)>>
    /\ shells = <<>>
    /\ chans = <<>>
    /\ conn = NewConn
    /\ log = <<>>
    /\ res = NewResult(PS1, <<>>, <<>>)
    /\ feed = <<>>
    /\ nfed = 0
    /\ deep = NoDeep

ExecCall ==
    \E t \in Threads, in \in ExecInputs, timeout \in {0, MaxTimeout} :
       /\ thr[t].ncalls = 0
       /\ ExecStart(t, ModM, in[1], in[2], timeout)

ExecInvoke == \E t \in Threads : InvokeShell(t)

ExecStore == \E t \in Threads : StoreShell(t)

ExecFetch == \E t \in Threads : FetchShell(t)

ExecSend ==
    \E t \in Threads :
       /\ thr[t].pc = "send"
       /\ \E reply \in ExecReplies(thr[t].cmd, thr[t].expect) : Send(t, reply)

ExecRecv == \E t \in Threads : \E n \in RecvSizes(t) : Recv(t, n)

ExecTick == \E t \in Threads : Tick(t)

ExecTimeout == \E t \in Threads : Timeout(t)

NextExec ==
    \/ Connect(ProfileA)
    \/ ExecCall
    \/ ExecInvoke
    \/ ExecStore
    \/ ExecFetch
    \/ ExecSend
    \/ ExecRecv
    \/ ExecTick
    \/ ExecTimeout

SpecExec == InitExec /\ [][NextExec]_vars

(***************************************************************************)
(* One exec() call and the clock, over days (SpecClock)                    *)
(***************************************************************************)

\* The days a call is followed for.
MaxDays == 2

\* exec(timeout=1) and exec(timeout=86400)
ClockTimeouts == {MaxTimeout, SecondsPerDay}

\* What the channel delivers: nothing at all, output that never ends with a
\* prompt, or the whole transcript of the command.
ClockReplies(cmd, expect) ==
    {<<>>, JoinEol(<<PS1 \o cmd, OutLine>>)} \cup
    {r \in ExecReplies(cmd, expect) :
        \A i \in 1..Len(r) : r[i] \notin {ByteC3, ByteA9}}

\* Time passes while the call is in its loop, in turns that read nothing:
\* a second, or, when no test of the loop condition in between can fail,
\* a day.
TickBy(t, d) ==
    /\ thr[t].pc = "poll"
    /\ ElapsedSeconds(thr[t].elapsed) < thr[t].timeout
    /\ \/ d = 1 /\ thr[t].timeout < SecondsPerDay
       \/ d = SecondsPerDay /\ thr[t].timeout >= SecondsPerDay
    /\ thr[t].elapsed + d <= MaxDays * SecondsPerDay
    /\ thr' = [thr EXCEPT ![t].elapsed = @ + d]
    /\ UNCHANGED <<shells, chans, conn, log, parserVars, utilVars>>

ClockCall ==
    \E t \in Threads, expect \in {ExpectZero, ExpectNothing},
       timeout \in ClockTimeouts :
       /\ thr[t].ncalls = 0
       /\ ExecStart(t, ModM, CmdLs, expect, timeout)

ClockSend ==
    \E t \in Threads :
       /\ thr[t].pc = "send"
       /\ \E reply \in ClockReplies(thr[t].cmd, thr[t].expect) : Send(t, reply)

ClockTick == \E t \in Threads, d \in {1, SecondsPerDay} : TickBy(t, d)

NextClock ==
    \/ Connect(ProfileA)
    \/ ClockCall
    \/ ExecInvoke
    \/ ExecStore
    \/ ExecFetch
    \/ ClockSend
    \/ ExecRecv
    \/ ClockTick
    \/ ExecTimeout

SpecClock == InitExec /\ [][NextClock]_vars

(***************************************************************************)
(* One caller, one shell, one exec() call after another (SpecReuse)        *)
(***************************************************************************)

\* exec() calls made on the shell after the one that created it.
MaxReuse == 1

\* The terminal's answers, in ASCII.
ReuseReplies(cmd, expect) ==
    {r \in ExecReplies(cmd, expect) :
        \A i \in 1..Len(r) : r[i] \notin {ByteC3, ByteA9}}

ReuseCall ==
    \E t \in Threads, expect \in {ExpectNothing, PatOk},
       timeout \in {0, MaxTimeout} :
       /\ thr[t].ncalls <= MaxReuse
       /\ ExecStart(t, ModM, CmdLs, expect, timeout)

ReuseSend ==
    \E t \in Threads :
       /\ thr[t].pc = "send"
       /\ \E reply \in ReuseReplies(thr[t].cmd, thr[t].expect) : Send(t, reply)

NextReuse ==
    \/ Connect(ProfileA)
    \/ ReuseCall
    \/ ExecInvoke
    \/ ExecStore
    \/ ExecFetch
    \/ ReuseSend
    \/ ExecRecv
    \/ ExecTick
    \/ ExecTimeout

SpecReuse == InitExec /\ [][NextReuse]_vars

(***************************************************************************)
(* Two callers sharing one SSH object (SpecSess)                           *)
(***************************************************************************)

\* exec() calls made by each thread.
MaxCalls == 1

\* close_shell() calls made.
MaxCloseShell == 1

\* Module and thread names; a name may hold the '-' that joins them.
ModMW == <<"m", "-", "w">>

NameWW == <<"w", "-", "w">>

CmdY == <<"y">>

SessMods == {ModM, ModMW}

SessNames == {NameW, NameWW}

SessKeys == {ShName(m, n) : m \in SessMods, n \in SessNames}

\* The terminal's answer to a command without output that exits 0.
SessReply(cmd, expect) ==
    IF expect = ExpectZero
    THEN JoinEol(<<cmd, PS1 \o EchoRc, <<"0">>, PS1>>)
    ELSE JoinEol(<<cmd, PS1>>)

\* Two threads: the second has the first one's name, or another.
InitSess ==
    /\ \E n \in SessNames : thr = <<IdleThread(NameW), IdleThread(n)>>
    /\ shells = <<>>
    /\ chans = <<>>
    /\ conn = NewConn
    /\ log = <<>>
    /\ res = NewResult(PS1, <<>>, <<>>)
    /\ feed = <<>>
    /\ nfed = 0
    /\ deep = NoDeep

SessConnect == Connect(ProfileA)

SessCall ==
    \E t \in Threads, mod \in SessMods, expect \in {ExpectZero, ExpectNothing} :
       /\ thr[t].ncalls < MaxCalls
       /\ ExecStart(t, mod, CmdY, expect, 1)

SessInvoke == \E t \in Threads : InvokeShell(t)

SessStore == \E t \in Threads : StoreShell(t)

SessFetch == \E t \in Threads : FetchShell(t)

SessSend == \E t \in Threads : Send(t, SessReply(thr[t].cmd, thr[t].expect))

\* The answer arrives in one piece.
SessRecv ==
    \E t \in Threads :
       /\ thr[t].pc = "poll"
       /\ Recv(t, Min(Len(chans[thr[t].shell].inq), RecvSize))

SessTick == \E t \in Threads : Tick(t)

SessTimeout == \E t \in Threads : Timeout(t)

SessClose == \E rmfails \in BOOLEAN : Close(rmfails)

NCloseShell == Cardinality({i \in 1..Len(log) : log[i].op \in {"close_shell1", "KeyError"}})

SessCloseShell ==
    \E name \in SessKeys :
       /\ NCloseShell < MaxCloseShell
       /\ CloseShell(name)

NextSess ==
    \/ SessConnect
    \/ SessCall
    \/ SessInvoke
    \/ SessStore
    \/ SessFetch
    \/ SessSend
    \/ SessRecv
    \/ SessTick
    \/ SessTimeout
    \/ SessClose
    \/ SessCloseShell

SpecSess == InitSess /\ [][NextSess]_vars

(***************************************************************************)
(* The same two callers, both in module m, and close() (SpecClose)         *)
(***************************************************************************)

\* exec('y', expect='') from module m.
CloseCall ==
    \E t \in Threads :
       /\ thr[t].ncalls < MaxCalls
       /\ ExecStart(t, ModM, CmdY, ExpectNothing, 1)

NextClose ==
    \/ SessConnect
    \/ CloseCall
    \/ SessInvoke
    \/ SessStore
    \/ SessFetch
    \/ SessSend
    \/ SessRecv
    \/ SessTick
    \/ SessTimeout
    \/ SessClose

SpecClose == InitSess /\ [][NextClose]_vars

(***************************************************************************)
(* The same two callers, both in module m, and close_shell() (SpecShell)   *)
(***************************************************************************)

\* The names close_shell() is called with: the two a caller in module m
\* can have.
ShellKeys == {ShName(ModM, n) : n \in SessNames}

ShellCloseShell ==
    \E name \in ShellKeys :
       /\ NCloseShell < MaxCloseShell
       /\ CloseShell(name)

NextShell ==
    \/ SessConnect
    \/ CloseCall
    \/ SessInvoke
    \/ SessStore
    \/ SessFetch
    \/ SessSend
    \/ SessRecv
    \/ SessTick
    \/ SessTimeout
    \/ ShellCloseShell

SpecShell == InitSess /\ [][NextShell]_vars

(***************************************************************************)
(* SSH(shenvs) and connect() (SpecEnv)                                     *)
(***************************************************************************)

\* Variables in the mapping the caller passes to SSH().
MaxEnv == 2

KeyX == <<"X">>

EnvKeys == {KeyPS1, KeyLANG, KeyLANGUAGE, KeyX}

EnvValues == {<<"a">>, <<"$", " ">>}

\* The dicts of at most n variables: insertion-ordered, no key twice.
RECURSIVE EnvDicts(_)
EnvDicts(n) ==
    IF n = 0 THEN {<<>>}
    ELSE LET less == EnvDicts(n - 1) IN
         less \cup {Append(d, [k |-> k, v |-> v]) :
                       d \in {e \in less : Len(e) = n - 1},
                       k \in EnvKeys, v \in EnvValues}

InitEnv ==
    /\ \E d \in {e \in EnvDicts(MaxEnv) :
                    \A i \in 1..Len(e), j \in 1..Len(e) : i # j => e[i].k # e[j].k} :
          conn = NewSSH(d)
    /\ thr = <<>>
    /\ shells = <<>>
    /\ chans = <<>>
    /\ log = <<>>
    /\ res = NewResult(PS1, <<>>, <<>>)
    /\ feed = <<>>
    /\ nfed = 0
    /\ deep = NoDeep

NextEnv == Connect(ProfileA)

SpecEnv == InitEnv /\ [][NextEnv]_vars

(***************************************************************************)
(* Properties of the parser on its own (SpecParser)                        *)
(***************************************************************************)

\* The state of a _Result that was given the raw text r.rs in one append.
ParsedAtOnce(r) == AppendRs(NewResult(r.ps1, r.cmd, r.expect), r.rs)

\* C5: however the raw text was split into append chunks, the parser state
\* after the last append (start, end, purified text, return code, hence
\* finished) is the state a single append of the whole text gives.
C5_StateIsFunctionOfRawText ==
    nfed >= 1 => res = ParsedAtOnce(res)

\* C5 witness: a text fed in two or more chunks, with both bounds located
\* and a purified text in between.
C5_Witness ==
    /\ nfed = 2
    /\ feed = <<>>
    /\ res.start # None
    /\ res.end # None
    /\ res.purers # <<>>

\* The raw text in full: what was appended and what is still to come.
FullText == res.rs \o feed

\* The text begins with the prompt and the echoed command, and no later
\* line ends with the command text.
EchoedOnce ==
    LET lines == SplitLines(FullText) IN
    /\ Len(lines) >= 1
    /\ lines[1] = PS1 \o res.cmd
    /\ \A i \in 2..Len(lines) : ~EndsWith(lines[i], res.cmd)

\* C8: after any sequence of appends, also one that ends inside the echoed
\* command line or inside a prompt line, the purified text holds no prompt
\* marker (so neither the echo line nor a prompt line, whole or in part);
\* and an expectation that occurs in the command text only never makes
\* finished true.
C8_NoEchoNoPromptInPurified ==
    EchoedOnce =>
       /\ ~Contains(PS1, res.purers)
       /\ res.expect = PatCmd => ~Finished(res)

\* The lines of the raw text from the start line on (from the first line
\* when no start is located).
LinesFromStart ==
    LET lines == SplitLines(res.rs)
    IN  SubSeq(lines, IF res.start = None THEN 1 ELSE res.start + 1, Len(lines))

\* C16 as stated: after every append, if no end boundary is located the
\* purified text is the empty string.
C16_NoEndEmptyPurified ==
    (nfed > 0 /\ res.end = None) => res.purers = <<>>

\* C16, amended: after every append, if no end boundary is located the
\* purified text is the raw lines from the start line (the first line when
\* no start is located) through the last line, joined by newlines and
\* trimmed.
C16_NoEndPurifiedFromStart ==
    (nfed > 0 /\ res.end = None) => res.purers = Strip(Join(LinesFromStart))

\* The command was echoed and its output is arriving, no prompt yet.
C16_Witness ==
    /\ nfed > 0
    /\ res.end = None
    /\ res.start # None
    /\ res.purers # <<>>
    /\ Len(SplitLines(res.rs)) > res.start

\* The line is an echo of the command: the command text itself, or a
\* prompt line that ends with the (non-blank) command text.
IsEcho(line) ==
    \/ line = res.cmd
    \/ Ps1Line(res.ps1, line) /\ EndsWith(line, res.cmd) /\ Strip(res.cmd) # <<>>

\* The lines the boundary scan has looked at: all of them, or those up to
\* the prompt line at which it stopped.
ScannedLines ==
    LET lines == SplitLines(res.rs)
    IN  IF res.end = None THEN lines ELSE SubSeq(lines, 1, res.end + 2)

\* The 1-based indices of the scanned lines that are echoes.
ScannedEchoes == {i \in 1..Len(ScannedLines) : IsEcho(ScannedLines[i])}

\* C17 as stated: the start index is one more than the (0-based) index of the first
\* scanned line that equals the command text or is a prompt line ending
\* with the non-blank command text; a later such line does not move it, and
\* without such a line there is no start.
C17_StartAfterFirstEcho ==
    nfed > 0 =>
       IF ScannedEchoes = {} THEN res.start = None
       ELSE res.start = CHOOSE i \in ScannedEchoes : \A j \in ScannedEchoes : i <= j

\* The 1-based indices of the scanned prompt lines that end with the
\* (non-blank) command text.
PromptEchoes ==
    {i \in 1..Len(ScannedLines) :
        /\ Ps1Line(res.ps1, ScannedLines[i])
        /\ EndsWith(ScannedLines[i], res.cmd)
        /\ Strip(res.cmd) # <<>>}

\* C17, amended: the start index is one more than the index of the LAST
\* scanned prompt line that ends with the non-blank command text; when no
\* scanned line is such a line, one more than the index of the FIRST scanned
\* line that equals the command text; without either there is no start.  A
\* later line equal to the command text does not move the start, a later
\* prompt line ending with the command text does.
C17_StartAfterLastPromptEcho ==
    nfed > 0 =>
       IF PromptEchoes # {}
       THEN res.start = CHOOSE i \in PromptEchoes : \A j \in PromptEchoes : j <= i
       ELSE IF ScannedEchoes # {}
       THEN res.start = CHOOSE i \in ScannedEchoes : \A j \in ScannedEchoes : i <= j
       ELSE res.start = None

\* An echo line was scanned before the prompt echo that set the start.
C17_Witness ==
    /\ nfed > 0
    /\ PromptEchoes # {}
    /\ \E i \in ScannedEchoes : i < res.start
    /\ res.start \in PromptEchoes

\* The trimmed command text contains whitespace.
MultiWord == \E i \in 1..Len(Strip(res.cmd)) : Strip(res.cmd)[i] \in Whitespace

\* The 1-based indices of the lines of the raw text at which C18 has the
\* scan stop: prompt lines that are no echo, except, for a multi-word
\* command, those with no echo line before them.
PromptStops ==
    LET lines == SplitLines(res.rs)
    IN  {i \in 1..Len(lines) :
            /\ Ps1Line(res.ps1, lines[i])
            /\ ~IsEcho(lines[i])
            /\ ~(MultiWord /\ \A j \in 1..(i - 1) : ~IsEcho(lines[j]))}

\* No line of the raw text is an echo of the command.
NeverEchoed ==
    \A i \in 1..Len(SplitLines(res.rs)) : ~IsEcho(SplitLines(res.rs)[i])

\* C18: the end index is one less than the index of the first prompt line
\* that is no echo line, a prompt line being skipped while the trimmed
\* command text contains whitespace and no start is located; hence for a
\* multi-word command never echoed in the raw text no end is located and,
\* under None or ExitCodeZero, finished() is false.
C18_EndBeforeFirstPrompt ==
    nfed > 0 =>
       /\ IF PromptStops = {} THEN res.end = None
          ELSE res.end = (CHOOSE i \in PromptStops : \A j \in PromptStops : i <= j) - 2
       /\ (MultiWord /\ NeverEchoed /\ res.expect \in {ExpectNothing, ExpectZero})
             => res.end = None /\ ~Finished(res)

\* An end is located, at least 3 lines follow the end line, the last of
\* them is a prompt line and the one before it begins with a digit.
RcShown ==
    LET lines == SplitLines(res.rs)
        n     == Len(lines)
    IN  /\ res.end # None
        /\ n - (res.end + 1) >= 3
        /\ Ps1Line(res.ps1, lines[n])
        /\ lines[n - 1] # <<>>
        /\ lines[n - 1][1] \in Digits

\* C19: under ExitCodeZero the return code after an append is non-empty
\* exactly when an end is located, at least 3 lines follow the end line, the
\* last of them is a prompt line and the second-to-last begins with a digit;
\* it is then that whole line (and finished() is true); in every other case
\* it is empty and finished() is false.
C19_ReturnCodeWhenShown ==
    (nfed > 0 /\ res.expect = ExpectZero) =>
       IF RcShown
       THEN /\ res.rc = SplitLines(res.rs)[Len(SplitLines(res.rs)) - 1]
            /\ res.rc # <<>>
            /\ Finished(res)
       ELSE res.rc = <<>> /\ ~Finished(res)

\* A return code was read off the raw text.
C19_Witness ==
    /\ nfed > 0
    /\ res.expect = ExpectZero
    /\ RcShown
    /\ res.rc = DigitLine

\* The lines of the raw text from the start line (the first line when no
\* start is located) through the end line.
LinesStartThroughEnd ==
    SubSeq(SplitLines(res.rs),
           IF res.start = None THEN 1 ELSE res.start + 1, res.end + 1)

\* C22: after every append in which an end is located, the purified text is
\* the raw lines from the start index through the end index inclusive (from
\* the first line when no start is located), joined by newlines and trimmed;
\* also when the end index is 0, the prompt being the second line, where it
\* is the first line unless that line is the echo.
C22_PurifiedIsStartThroughEnd ==
    (nfed > 0 /\ res.end # None) =>
       res.purers = Strip(Join(LinesStartThroughEnd))

\* C22 for every end index but 0.
C22_PurifiedUnlessEndZero ==
    (nfed > 0 /\ res.end # None /\ res.end # 0) =>
       res.purers = Strip(Join(LinesStartThroughEnd))

(***************************************************************************)
(* Properties of one exec() call (SpecExec)                                *)
(***************************************************************************)

\* The remote side's whole answer to thread t's payload, as text.
ReplyLines(t) == SplitLines(Decode(thr[t].reply))

\* The answer has reached the call in full.
AllReceived(t) ==
    /\ thr[t].pc \in {"poll", "done"}
    /\ thr[t].reply # <<>>
    /\ chans[thr[t].shell].inq = <<>>

\* For an answer to `cmd; echo $?`: the output lines (those between the
\* echo line and the prompt line that echoes 'echo $?') joined by newlines
\* and trimmed, and the exit code line.
ZeroOutput(t) ==
    LET lines == ReplyLines(t)
    IN  Strip(Join(SubSeq(lines, 2, Len(lines) - 3)))

ZeroExitCode(t) == ReplyLines(t)[Len(ReplyLines(t)) - 1]

\* C1: under ExitCodeZero, for a well-formed transcript delivered in any
\* chunks, exec returns exactly the output lines (joined, trimmed) when the
\* exit code line is '0', and raises the command-failure error otherwise:
\* a call that ended otherwise than by timeout ended that way, and a call
\* that has received the whole transcript has ended.
C1_ExitCodeZeroOutcome ==
    \A t \in Threads :
       thr[t].expect = ExpectZero /\ thr[t].reply # <<>> =>
          /\ thr[t].ret.kind \in {"return", "ShellError"} =>
                IF ZeroExitCode(t) = <<"0">>
                THEN thr[t].ret.kind = "return" /\ thr[t].ret.text = ZeroOutput(t)
                ELSE thr[t].ret.kind = "ShellError"
          /\ AllReceived(t) => thr[t].ret.kind \in {"return", "ShellError"}

IsContains(expect) == expect # ExpectZero /\ expect # ExpectNothing

\* C2: under Contains(pattern), exec returns at the first append after
\* which the pattern is in the purified text and not before (a call still
\* polling after an append has no pattern in its purified text; a call that
\* returned has it), it returns the purified text of that moment, and it
\* does so whether or not a prompt line has arrived.
C2_ContainsReturnsAtFirstMatch ==
    \A t \in Threads :
       IsContains(thr[t].expect) =>
          /\ thr[t].pc = "poll" /\ thr[t].nrecv >= 1 =>
                ~Contains(thr[t].expect, thr[t].result.purers)
          /\ thr[t].pc = "done" /\ thr[t].nrecv >= 1 /\ thr[t].ret.kind # "Timeout" =>
                /\ thr[t].ret.kind = "return"
                /\ Contains(thr[t].expect, thr[t].result.purers)
                /\ thr[t].ret.text = thr[t].result.purers

\* C2 witness: a call under Contains returned at its second append or
\* later, with no prompt line located after the output.
C2_Witness ==
    \E t \in Threads :
       /\ IsContains(thr[t].expect)
       /\ thr[t].ret.kind = "return"
       /\ thr[t].nrecv = 2
       /\ thr[t].result.end = None
       /\ thr[t].result.start # None

\* For an answer whose prompt comes back: the text between the echo line
\* and the next prompt line, joined by newlines and trimmed.
RECURSIVE NextPrompt(_, _)
NextPrompt(lines, i) ==
    IF i > Len(lines) THEN 0
    ELSE IF Contains(PS1, lines[i]) THEN i
    ELSE NextPrompt(lines, i + 1)

TextBeforePrompt(t) ==
    LET lines == ReplyLines(t)
    IN  Strip(Join(SubSeq(lines, 2, NextPrompt(lines, 2) - 1)))

\* C3: under the expectation None, exec never raises the command-failure
\* error, and what it returns is the text between the echoed command line
\* and the next prompt line (so it returns only once that prompt is there).
C3_NoneReturnsTextBeforePrompt ==
    \A t \in Threads :
       thr[t].expect = ExpectNothing /\ thr[t].reply # <<>> =>
          /\ thr[t].ret.kind # "ShellError"
          /\ thr[t].ret.kind = "return" =>
                /\ NextPrompt(ReplyLines(t), 2) # 0
                /\ thr[t].ret.text = TextBeforePrompt(t)

\* C4: exec raises the timeout error exactly when its loop ends (the
\* elapsed whole seconds are no longer below the timeout) with finished
\* never true after an append; the error carries the command, the
\* expectation and the purified text the parser holds after all the chunks
\* appended so far.  A call that ended otherwise ended inside the loop on a
\* finished parser, and a call still in the loop is not finished.
C4_TimeoutExactlyWhenLoopEnds ==
    \A t \in Threads :
       /\ thr[t].ret.kind = "Timeout" =>
             /\ ~(ElapsedSeconds(thr[t].elapsed) < thr[t].timeout)
             /\ ~Finished(thr[t].result)
             /\ thr[t].ret.cmd = thr[t].cmd
             /\ thr[t].ret.expect = thr[t].expect
             /\ thr[t].ret.text = ParsedAtOnce(thr[t].result).purers
       /\ thr[t].ret.kind \in {"return", "ShellError"} =>
             /\ ElapsedSeconds(thr[t].elapsed) < thr[t].timeout
             /\ Finished(thr[t].result)
       /\ thr[t].pc = "poll" /\ thr[t].nrecv >= 1 => ~Finished(thr[t].result)

\* C4 witness: a call timed out after at least one append, and the text its
\* error carries is not the raw text.
C4_Witness ==
    \E t \in Threads :
       /\ thr[t].ret.kind = "Timeout"
       /\ thr[t].nrecv >= 1
       /\ thr[t].ret.text # <<>>
       /\ thr[t].ret.text # thr[t].result.rs

(***************************************************************************)
(* Properties of the shells of one SSH object (SpecSess)                   *)
(***************************************************************************)

\* C6: two concurrent exec() calls with one shell name that both find the
\* name uncached open at most one pseudo-terminal for it: at no moment are
\* there two live channels with the same name.
C6_OnePtyPerKey ==
    \A c \in DOMAIN chans, d \in DOMAIN chans :
       c # d /\ chans[c].name = chans[d].name =>
          chans[c].closed \/ chans[d].closed

\* The places of all the payloads written so far: channel and position.
Written ==
    UNION {{<<c, i>> : i \in 1..Len(chans[c].sent)} : c \in DOMAIN chans}

PayloadAt(w) == chans[w[1]].sent[w[2]]

\* C7: of two exec() calls with no close() and no close_shell() between
\* their sends, those of one caller identity (module, thread name) send on
\* the same channel, and those of two identities send on two channels.
C7_SameIdentitySameShell ==
    \A v \in Written, w \in Written :
       v # w /\ PayloadAt(v).era = PayloadAt(w).era =>
          LET p == PayloadAt(v)
              q == PayloadAt(w)
          IN  (p.mod = q.mod /\ p.name = q.name) <=> (v[1] = w[1])

\* The payload of a call: the command, then a line 'echo $?' under the
\* expectation '0' only, then a carriage return.
CallPayload(p) ==
    p.cmd \o (IF p.expect = ExpectZero THEN <<"\n">> \o EchoRc ELSE <<>>) \o <<"\r">>

\* The directive that opens the first payload of a shell.
SourceLine == SourceWord \o conn.profile \o <<"\n">>

\* The payloads thread t has written.
WrittenBy(t) == {w \in Written : PayloadAt(w).t = t}

\* C9: the first payload written to a channel is the line 'source
\* <profile>' and then the call's payload, every later payload on that
\* channel is the call's payload alone, and a call writes one payload (a
\* call that got as far as its loop has written exactly one).
C9_SourceOnceThenCommands ==
    /\ \A w \in Written :
          PayloadAt(w).data = IF w[2] = 1
                              THEN SourceLine \o CallPayload(PayloadAt(w))
                              ELSE CallPayload(PayloadAt(w))
    /\ \A t \in Threads :
          /\ Cardinality(WrittenBy(t)) <= thr[t].ncalls
          /\ thr[t].pc = "poll" => Cardinality(WrittenBy(t)) = thr[t].ncalls

\* The step is a call of close(): the log grows by the events of a close,
\* which begin with the removal of the profile.
IsCloseStep ==
    /\ Len(log') > Len(log)
    /\ log'[Len(log) + 1].op \in {"rm", "rm_failed"}

\* The events the step added to the log.
NewEvents == SubSeq(log', Len(log) + 1, Len(log'))

\* C10: a call of close(), whether the removal of the profile failed or
\* not, returns normally, leaves no shell in the map, has closed every
\* channel that was in the map, and closes the transport after the last of
\* them.
C10_CloseClosesEverything ==
    [][IsCloseStep =>
         LET ev == NewEvents
             n  == Len(ev)
         IN  /\ ev[n].op = "close_return"
             /\ ev[n - 1].op = "close_transport"
             /\ shells' = <<>>
             /\ conn'.state = "closed"
             /\ \A i \in 1..Len(shells) :
                   /\ chans'[shells[i].shell].closed
                   /\ \E j \in 2..(n - 2) :
                         /\ ev[j].op = "close_shell"
                         /\ ev[j].key = shells[i].name
                         /\ ev[j].chan = shells[i].shell
             /\ \A j \in 1..n : ev[j].op = "close_transport" => j = n - 1]_vars

\* C10 witness: a close() whose profile removal failed has closed two
\* shells that were open and in use, and then the transport.
C10_Witness ==
    /\ conn.state = "closed"
    /\ \E i \in 1..Len(log), j \in 1..Len(log), k \in 1..Len(log) :
          /\ i < j /\ j < k
          /\ log[i].op = "rm_failed"
          /\ log[j].op = "close_shell"
          /\ log[k].op = "close_shell"
          /\ log[j].chan # log[k].chan
          /\ chans[log[j].chan].sent # <<>>
          /\ chans[log[k].chan].sent # <<>>

(***************************************************************************)
(* Properties of close_shell() (SpecShell)                                 *)
(***************************************************************************)

\* The step is a call of close_shell(): the log grows by its one event.
IsCloseShellStep ==
    /\ Len(log') = Len(log) + 1
    /\ log'[Len(log')].op \in {"close_shell1", "KeyError"}

\* The channels that close_shell() or the loop of close() has closed, as
\* the log l tells.
ClosedByName(l) ==
    {l[i].chan : i \in {j \in 1..Len(l) : l[j].op \in {"close_shell", "close_shell1"}}}

\* C11: close_shell(name) with a cached name removes that entry only and
\* closes its channel only, every other entry and channel staying as it
\* was; with an unknown name it raises, closes nothing and leaves the map
\* as it was.  No channel closed by name is in the map afterwards.
C11_CloseShellClosesOne ==
    [][/\ IsCloseShellStep =>
            LET e == log'[Len(log')] IN
            IF \E i \in 1..Len(shells) : shells[i].name = e.key
            THEN /\ e.op = "close_shell1"
                 /\ \E i \in 1..Len(shells) :
                       shells[i].name = e.key /\ shells[i].shell = e.chan
                 /\ shells' = SelectSeq(shells, LAMBDA x : x.name # e.key)
                 /\ chans'[e.chan].closed
                 /\ \A d \in DOMAIN chans : d # e.chan => chans'[d] = chans[d]
            ELSE /\ e.op = "KeyError"
                 /\ shells' = shells
                 /\ chans' = chans
       /\ \A i \in 1..Len(shells') : shells'[i].shell \notin ClosedByName(log')]_vars

\* C11 witness: a close_shell() has closed one caller's shell while the
\* other caller's shell, in use, is still cached and open.
C11_Witness ==
    /\ \E i \in 1..Len(log) :
          /\ log[i].op = "close_shell1"
          /\ chans[log[i].chan].closed
          /\ chans[log[i].chan].sent # <<>>
    /\ \E j \in 1..Len(shells) :
          /\ ~chans[shells[j].shell].closed
          /\ chans[shells[j].shell].sent # <<>>

\* C12: between connect() and close() a shell name is bound to one channel
\* only: no second channel is ever opened under a name that had one.
C12_OneChannelPerName ==
    \A c \in DOMAIN chans, d \in DOMAIN chans :
       c # d => chans[c].name # chans[d].name

(***************************************************************************)
(* Properties of the profile (SpecEnv)                                     *)
(***************************************************************************)

\* The keys of a dict.
DictKeys(d) == {d[i].k : i \in 1..Len(d)}

\* The value the profile is to give variable k: the fixed one for PS1,
\* LANG and LANGUAGE, the caller's for any other.
ProfileValue(k) ==
    IF k = KeyPS1 THEN PS1
    ELSE IF k \in {KeyLANG, KeyLANGUAGE} THEN EnUs
    ELSE LET i == CHOOSE j \in 1..Len(conn.given) : conn.given[j].k = k
         IN  conn.given[i].v

\* The line of the profile that exports k as v, without its line end.
Export(k, v) ==
    <<"e", "x", "p", "o", "r", "t", " ">> \o k \o <<"=", "\"">> \o v \o <<"\"">>

\* C13: the profile written by connect() has one export line for each key
\* (the caller's and PS1, LANG, LANGUAGE) and no other line; PS1 is the
\* prompt marker, LANG and LANGUAGE are 'en_US.UTF-8' whatever the caller
\* gave for them, and any other key has the caller's value.
C13_ProfileLines ==
    conn.state = "open" =>
       LET lines == SplitLines(conn.file)
           keys  == DictKeys(conn.given) \cup {KeyPS1, KeyLANG, KeyLANGUAGE}
       IN  /\ Len(lines) = Cardinality(keys)
           /\ \A k \in keys :
                 Cardinality({i \in 1..Len(lines) :
                                lines[i] = Export(k, ProfileValue(k))}) = 1

\* C13 witness: a profile written for a caller who gave a PS1 of their own
\* and a variable of their own.
C13_Witness ==
    /\ conn.state = "open"
    /\ conn.file # <<>>
    /\ \E i \in 1..Len(conn.given) :
          conn.given[i].k = KeyPS1 /\ conn.given[i].v # PS1
    /\ \E i \in 1..Len(conn.given) : conn.given[i].k = KeyX

(***************************************************************************)
(* The outcome of exec() and the split of the reply (SpecExec)             *)
(***************************************************************************)

\* What the loop of thread t's call does when recv() returns the remote
\* side's whole answer at once.
OneChunkOutcome(t) ==
    AfterAppend(thr[t].cmd, thr[t].expect,
                AppendRs(NewResult(PS1, thr[t].cmd, thr[t].expect),
                         Decode(thr[t].reply)))

C15_EarlyEmptyReturn ==
    \A t \in Threads :
       (/\ thr[t].expect = ExpectNothing
        /\ thr[t].cmd = CmdLs
        /\ thr[t].reply # <<>>
        /\ \A i \in 1..Len(thr[t].reply) : thr[t].reply[i] \notin {ByteC3, ByteA9}
        /\ thr[t].ret.kind = "return"
        /\ OneChunkOutcome(t).kind = "return")
          => thr[t].ret.text = OneChunkOutcome(t).text

(***************************************************************************)
(* The end of an exec() call (SpecClock)                                   *)
(***************************************************************************)

\* Thread t's call is in its loop and the whole seconds elapsed since the
\* payload was sent have reached the timeout.
TimeIsUp(t) == thr[t].pc = "poll" /\ thr[t].elapsed >= thr[t].timeout

\* C20: every exec call ends, whatever the channel delivers: once the
\* elapsed whole seconds have reached the timeout, the call reads the
\* channel no more and its next step ends it.
C20_EndsWhenTimeIsUp ==
    [][\A t \in Threads :
          TimeIsUp(t) => thr'[t].pc = "done" /\ chans' = chans]_vars

\* C20, the read alone: no byte is taken from the channel by a call whose
\* elapsed whole seconds have reached the timeout.
C20_NoReadWhenTimeIsUp ==
    [][\A t \in Threads :
          TimeIsUp(t) =>
             Len(chans'[thr[t].shell].inq) >= Len(chans[thr[t].shell].inq)]_vars

\* C20, the end alone: no call is in its loop a day after its timeout.
C20_NoLoopADayLater ==
    \A t \in Threads :
       thr[t].pc = "poll" => thr[t].elapsed < thr[t].timeout + SecondsPerDay

(***************************************************************************)
(* A call on a shell an earlier call has used (SpecReuse)                  *)
(***************************************************************************)

\* a is the beginning of b.
IsPrefix(a, b) == Len(a) <= Len(b) /\ SubSeq(b, 1, Len(a)) = a

\* The purified texts a parser of thread t's call holds after some part of
\* the remote side's answer to that call's own payload.
OwnPurified(t) ==
    {AppendRs(NewResult(PS1, thr[t].cmd, thr[t].expect),
              SubSeq(thr[t].reply, 1, n)).purers : n \in 0..Len(thr[t].reply)}

\* C21: on a reused shell the raw text fed to a call's parser holds only
\* bytes the remote side produced in answer to that call's own payload (it
\* is the beginning of that answer), and so does the text the call returns:
\* bytes an earlier call left unread on the channel are never fed to it.
C21_OnlyOwnBytesFed ==
    \A t \in Threads :
       thr[t].pc \in {"poll", "done"} =>
          /\ IsPrefix(thr[t].result.rs, thr[t].reply)
          /\ thr[t].ret.kind = "return" => thr[t].ret.text \in OwnPurified(t)

\* C21 for the first call on a shell only, where no earlier call has left
\* anything.
C21_FirstCallOnlyOwnBytes ==
    \A t \in Threads :
       (thr[t].pc \in {"poll", "done"} /\ thr[t].ncalls = 1) =>
          IsPrefix(thr[t].result.rs, thr[t].reply)

(***************************************************************************)
(* Properties of deepset() and deepget() (SpecUtil)                        *)
(***************************************************************************)

\* The keys of the deepkey given to deepset()
SetKeys == ParseDeepkey(deep.key, ".")

\* The deepkey has no list index.
NoIndex == \A i \in 1..Len(deep.key) : deep.key[i] # "["

\* Some proper prefix of the deepkey was bound to a value that is no dict.
LeafOnPath ==
    \E i \in 1..(Len(SetKeys) - 1) :
        LET r == Reduce(SubSeq(SetKeys, 1, i), deep.before)
        IN  r.err = "" /\ r.val.kind # "dict"

\* The key paths at which the model looks for a change.
ElsewherePaths ==
    LET ks == {KeyA, KeyB, StrKey(<<>>), IntKey(0)}
    IN  {<<x>> : x \in ks} \cup {<<x, y>> : x \in ks, y \in ks}
        \cup {<<x, y, z>> : x \in ks, y \in ks, z \in ks}

\* deepset() returned, deepget() gives the value back, the dicts on the
\* path exist and nothing changed off the path.
SetAndKept ==
    /\ deep.set = ""
    /\ deep.got = Value(deep.value)
    /\ \A i \in 1..(Len(SetKeys) - 1) :
          LET r == Reduce(SubSeq(SetKeys, 1, i), deep.obj)
          IN  r.err = "" /\ r.val.kind = "dict"
    /\ \A q \in ElsewherePaths :
          ~IsPrefix(q, SetKeys) /\ ~IsPrefix(SetKeys, q)
              => Reduce(q, deep.obj) = Reduce(q, deep.before)

\* C14 as stated: for every nested dict, every deepkey without a list index
\* and every value, after deepset() deepget() returns the value, the missing
\* dicts on the path were created and no other path changed.
C14_DeepSetThenGet ==
    (deep.pc = "done" /\ NoIndex) => SetAndKept

\* C14, amended: the same, for the deepkeys none of whose proper prefixes is
\* bound in obj to a value that is no dict; for the others deepset() raises
\* and obj is left as it was.
C14_DeepSetThenGetUnlessLeaf ==
    (deep.pc = "done" /\ NoIndex) =>
        IF LeafOnPath THEN deep.set # "" /\ deep.obj = deep.before
        ELSE SetAndKept

\* A deepset() that had to create two dicts next to a key it kept.
C14_Witness ==
    /\ deep.pc = "done"
    /\ NoIndex
    /\ ~LeafOnPath
    /\ Len(SetKeys) = 2
    /\ Reduce(<<SetKeys[1]>>, deep.before).err = "KeyError"
    /\ deep.before.items # <<>>
    /\ deep.got = Value(deep.value)

====
